---- MODULE Spec2Model ----
(***************************************************************************)
(* Model of the WranglingWorkshop repository:                              *)
(*   - src/src/db.py       DatabaseClient (scoped connection, schema        *)
(*                         manager, the four loaders) over a PostgreSQL     *)
(*                         connection driven through psycopg2;              *)
(*   - src/src/cleaning.py EmployeeCleaner.clean (a pure function).         *)
(* Spec is the database client; SpecClean applies clean to bounded batches. *)
(***************************************************************************)
EXTENDS Integers, Sequences, FiniteSets, TLC

VARIABLES
    pc,        \* the caller: "out" | "body" | "returned" (an operation just ended) | "exited"
    conn,      \* DatabaseClient._conn: "none" | "open" | "closed"
    exc,       \* exception in flight inside the with-body ("none" when there is none)
    tx,        \* transaction status of the connection: "idle" | "intrans" | "aborted"
    schema,    \* tables, unique constraints and the is_dirty column present in storage
    store,     \* committed rows of the four tables
    view,      \* rows as the connection's current transaction sees them
    seqs,      \* the SERIAL sequences of departments and projects (never rolled back)
    last,      \* log of the most recent operation (input, statements, outcome, report)
    exitLog,   \* log of the most recent __exit__
    nCalls,    \* number of operations invoked so far
    cl         \* state of the cleaner run (used by SpecClean only)

vars == <<pc, conn, exc, tx, schema, store, view, seqs, last, exitLog, nCalls, cl>>
dbvars == <<pc, conn, exc, tx, schema, store, view, seqs, last, exitLog, nCalls>>

-----------------------------------------------------------------------------
(* Bounds of the model. *)

\* longest employee batch
MaxBatch == 3
\* longest department / project / assignment batch
MaxRows == 2
\* operations invoked in one behaviour
MaxCalls == 3

-----------------------------------------------------------------------------
(* Values.  A cell is what a DataFrame cell or a tuple element holds: a     *)
(* missing value (None/NaN/NaT), a non-numeric string, a boolean, or an     *)
(* integer.  Integers are two-limb numbers hi * 2^31 + lo, 0 <= lo < 2^31,  *)
(* so that values outside the 32-bit range of a PostgreSQL INTEGER exist.   *)

PG_INT_MAX == 2147483647
PG_INT_MIN == (-2147483647) - 1

Null == [k |-> "null", hi |-> 0, lo |-> 0, s |-> ""]
Text(str) == [k |-> "text", hi |-> 0, lo |-> 0, s |-> str]
Date(ymd) == [k |-> "date", hi |-> 0, lo |-> ymd, s |-> ""]
Bool(b) == [k |-> "bool", hi |-> 0, lo |-> IF b THEN 1 ELSE 0, s |-> ""]
Wide(h, l) == [k |-> "num", hi |-> h, lo |-> l, s |-> ""]
Int32(n) == IF n >= 0 THEN Wide(0, n) ELSE Wide(-1, (n + PG_INT_MAX) + 1)

IsNull(c) == c.k = "null"
IsNum(c) == c.k = "num"

\* a > b and a < b on two-limb integers
WideGt(a, b) == a.hi > b.hi \/ (a.hi = b.hi /\ a.lo > b.lo)
WideLt(a, b) == WideGt(b, a)

\* the value fits a PostgreSQL INTEGER
InIntRange(c) == ~WideGt(c, Int32(PG_INT_MAX)) /\ ~WideLt(c, Int32(PG_INT_MIN))

-----------------------------------------------------------------------------
(* Storage: the schema of create_tables and the INSERT statements.         *)

TableNames == {"departments", "employees", "projects", "employee_projects"}

\* CREATE TABLE departments (db.py 57-62) and its UNIQUE constraint (65-74)
DepartmentsDDL ==
    [cols    |-> {"department_id", "department_name", "location", "budget"},
     ints    |-> {"department_id", "budget"},
     notNull |-> {"department_id", "department_name", "location", "budget"},
     pk      |-> {"department_id"},
     uniq    |-> {"department_name"},
     serial  |-> {"department_id"},
     fks     |-> {}]

\* CREATE TABLE employees (db.py 77-84) and ADD COLUMN is_dirty (87-88)
EmployeesDDL ==
    [cols    |-> {"employee_id", "name", "position", "start_date", "salary",
                  "department_id", "is_dirty"},
     ints    |-> {"employee_id", "salary", "department_id"},
     notNull |-> {"employee_id"},
     pk      |-> {"employee_id"},
     uniq    |-> {},
     serial  |-> {},
     fks     |-> {[col |-> "department_id", table |-> "departments", ref |-> "department_id"]}]

\* CREATE TABLE projects (db.py 91-98) and its UNIQUE constraint (101-110)
ProjectsDDL ==
    [cols    |-> {"project_id", "project_name", "project_type", "start_date",
                  "end_date", "budget"},
     ints    |-> {"project_id", "budget"},
     notNull |-> {"project_id", "project_name", "project_type", "start_date", "budget"},
     pk      |-> {"project_id"},
     uniq    |-> {"project_name"},
     serial  |-> {"project_id"},
     fks     |-> {}]

\* CREATE TABLE employee_projects (db.py 113-118)
EmployeeProjectsDDL ==
    [cols    |-> {"employee_id", "project_id", "role_on_project"},
     ints    |-> {"employee_id", "project_id"},
     notNull |-> {"employee_id", "project_id"},
     pk      |-> {"employee_id", "project_id"},
     uniq    |-> {},
     serial  |-> {},
     fks     |-> {[col |-> "employee_id", table |-> "employees", ref |-> "employee_id"],
                  [col |-> "project_id", table |-> "projects", ref |-> "project_id"]}]

DDL(t) ==
    CASE t = "departments" -> DepartmentsDDL
      [] t = "employees" -> EmployeesDDL
      [] t = "projects" -> ProjectsDDL
      [] OTHER -> EmployeeProjectsDDL

\* The columns a table has under schema sch (is_dirty is added by a separate ALTER).
ColumnsOf(sch, t) ==
    IF t = "employees" /\ ~sch.isDirty THEN DDL(t).cols \ {"is_dirty"} ELSE DDL(t).cols

\* The INSERT statements of the four loaders: target table, parameter columns in
\* order, conflict target, and the columns SET on conflict (none: DO NOTHING).
DepartmentsSqlDoNothing ==
    [table  |-> "departments",
     cols   |-> <<"department_name", "location", "budget">>,
     target |-> {"department_name"},
     set    |-> {}]
DepartmentsSql ==
    [table  |-> "departments",
     cols   |-> <<"department_name", "location", "budget">>,
     target |-> {"department_name"},
     set    |-> {"location", "budget"}]

EmployeesSqlDoUpdate ==
    [table  |-> "employees",
     cols   |-> <<"employee_id", "name", "position", "start_date", "salary",
                  "department_id", "is_dirty">>,
     target |-> {"employee_id"},
     set    |-> {"name", "position", "start_date", "salary", "department_id", "is_dirty"}]
EmployeesSql ==
    [table  |-> "employees",
     cols   |-> <<"employee_id", "name", "position", "start_date", "salary",
                  "department_id", "is_dirty">>,
     target |-> {"employee_id"},
     set    |-> {}]

ProjectsSql ==
    [table  |-> "projects",
     cols   |-> <<"project_name", "project_type", "start_date", "end_date", "budget">>,
     target |-> {"project_name"},
     set    |-> {"project_type", "start_date", "end_date", "budget"}]

EmployeeProjectsSql ==
    [table  |-> "employee_projects",
     cols   |-> <<"employee_id", "project_id", "role_on_project">>,
     target |-> {"employee_id", "project_id"},
     set    |-> {}]

Range(f) == {f[i] : i \in DOMAIN f}

\* A world is what a statement reads and writes: the rows of the four tables
\* (t) and the two sequences (sq).
NextSerial(w, t) == Int32(w.sq[t] + 1)

\* The position of column c among the statement's parameter columns.
ParamIndex(sql, c) == CHOOSE i \in DOMAIN sql.cols : sql.cols[i] = c

\* The row a statement proposes for insertion: the parameter tuple under the
\* statement's column names, completed by the SERIAL default and by NULL / the
\* column default for the columns the statement does not name.
Proposed(sch, w, sql, params) ==
    [c \in ColumnsOf(sch, sql.table) |->
        IF c \in Range(sql.cols) THEN params[ParamIndex(sql, c)]
        ELSE IF c \in DDL(sql.table).serial THEN NextSerial(w, sql.table)
        ELSE IF c = "is_dirty" THEN Bool(FALSE)
        ELSE Null]

SameOn(r1, r2, colset) == \A c \in colset : r1[c] = r2[c]

\* The foreign keys of table t hold for row r in tables tb.
FksHold(tb, t, r) ==
    \A fk \in DDL(t).fks :
        IsNull(r[fk.col]) \/ \E p \in tb[fk.table] : p[fk.ref] = r[fk.col]

\* ON CONFLICT ... DO UPDATE SET c = EXCLUDED.c for the columns of colset
Merged(o, row, colset) == [c \in DOMAIN o |-> IF c \in colset THEN row[c] ELSE o[c]]

\* The error, if any, PostgreSQL raises for one INSERT ... ON CONFLICT statement
\* ("" when it succeeds), given the constraints d of its table, the row it
\* proposes and the stored rows hit that conflict with it on the target.
StmtErrorOn(sch, w, sql, d, row, hit) ==
    IF sql.table \notin sch.tables THEN "undefined_table"
    ELSE IF ~(Range(sql.cols) \subseteq ColumnsOf(sch, sql.table)) THEN "undefined_column"
    ELSE IF sql.target # d.pk /\ ~(sql.target = d.uniq /\ sql.table \in sch.uniq)
        THEN "no_unique_constraint"
    ELSE IF \E c \in d.ints : row[c].k \in {"text", "bool", "date"} THEN "invalid_text"
    ELSE IF \E c \in d.ints : IsNum(row[c]) /\ ~InIntRange(row[c]) THEN "out_of_range"
    ELSE IF \E c \in d.notNull : IsNull(row[c]) THEN "not_null"
    ELSE IF hit # {} /\ sql.set = {} THEN ""
    ELSE IF hit # {} THEN
        (IF \A o \in hit : FksHold(w.t, sql.table, Merged(o, row, sql.set))
         THEN "" ELSE "foreign_key")
    ELSE IF \E o \in w.t[sql.table] : SameOn(o, row, d.pk) THEN "unique_violation"
    ELSE IF ~FksHold(w.t, sql.table, row) THEN "foreign_key"
    ELSE ""

\* The rows of the statement's table after a statement that succeeded.
StmtRows(w, sql, row, hit) ==
    IF hit # {}
    THEN {IF o \in hit THEN Merged(o, row, sql.set) ELSE o : o \in w.t[sql.table]}
    ELSE w.t[sql.table] \cup {row}

\* The stored rows that conflict with row on the statement's conflict target.
Hit(sch, w, sql, row) ==
    IF sql.table \in sch.tables /\ Range(sql.cols) \subseteq ColumnsOf(sch, sql.table)
    THEN {o \in w.t[sql.table] : SameOn(o, row, sql.target)}
    ELSE {}

\* A statement that reaches the executor (its answer e is not an error of
\* analysis) draws the SERIAL default whether or not it then fails or
\* conflicts; sequences are not transactional.
DrawSerial(sq, sql, e) ==
    IF DDL(sql.table).serial # {}
       /\ e \notin {"undefined_table", "undefined_column", "no_unique_constraint"}
    THEN [sq EXCEPT ![sql.table] = @ + 1]
    ELSE sq

-----------------------------------------------------------------------------
(* The psycopg2 connection and cursor.  A connection state K holds the     *)
(* committed rows (store), the rows the open transaction sees (view), the   *)
(* sequences (sq) and the transaction status (tx).                          *)

\* conn.commit(): COMMIT of an aborted transaction is a ROLLBACK
Commit(K) ==
    IF K.tx = "aborted"
    THEN [K EXCEPT !.view = K.store, !.tx = "idle"]
    ELSE [K EXCEPT !.store = K.view, !.tx = "idle"]

\* conn.rollback()
Rollback(K) == [K EXCEPT !.view = K.store, !.tx = "idle"]

\* The server's answer to one statement outside an aborted transaction: a
\* statement that fails aborts the transaction.
Served(sch, K, sql, row, hit, e) ==
    [err |-> e,
     K |-> [K EXCEPT !.view[sql.table] =
                        IF e = "" THEN StmtRows([t |-> K.view], sql, row, hit) ELSE @,
                     !.sq = DrawSerial(K.sq, sql, e),
                     !.tx = IF e = "" THEN "intrans" ELSE "aborted"],
     sent |-> 1]

ServeRow(sch, K, sql, row, hit) ==
    Served(sch, K, sql, row, hit,
           StmtErrorOn(sch, [t |-> K.view], sql, DDL(sql.table), row, hit))

Serve(sch, K, sql, row) ==
    ServeRow(sch, K, sql, row, Hit(sch, [t |-> K.view], sql, row))

\* cur.execute(sql, params): psycopg2 merges the parameters into the statement
\* first (a tuple with too few or too many elements raises on the client, and
\* nothing is sent); the server rejects every statement of an aborted
\* transaction.
Execute(sch, K, sql, params) ==
    IF Len(params) # Len(sql.cols) THEN [err |-> "client_args", K |-> K, sent |-> 0]
    ELSE IF K.tx = "aborted" THEN [err |-> "in_failed_tx", K |-> K, sent |-> 1]
    ELSE Serve(sch, K, sql, Proposed(sch, [sq |-> K.sq], sql, params))

\* Executing rows[i..] one statement after the other until one fails: this is
\* cur.executemany(sql, rows).  at is the 1-based position of the failing row
\* (0: none failed), sent the number of statements sent to the server.
RECURSIVE ExecuteFrom(_, _, _, _, _, _)
ExecuteStep(sch, sql, rows, i, sent, r) ==
    IF r.err # "" THEN [err |-> r.err, at |-> i, K |-> r.K, sent |-> sent + r.sent]
    ELSE ExecuteFrom(sch, r.K, sql, rows, i + 1, sent + r.sent)

ExecuteFrom(sch, K, sql, rows, i, sent) ==
    IF i > Len(rows) THEN [err |-> "", at |-> 0, K |-> K, sent |-> sent]
    ELSE ExecuteStep(sch, sql, rows, i, sent, Execute(sch, K, sql, rows[i]))

ExecuteMany(sch, K, sql, rows) == ExecuteFrom(sch, K, sql, rows, 1, 0)

\* What an operation leaves behind: the work of an aborted transaction can be
\* neither read nor committed any more.
Settle(K) == IF K.tx = "aborted" THEN [K EXCEPT !.view = K.store] ELSE K

-----------------------------------------------------------------------------
(* DataFrames.  A DataFrame is [cols: the column names, rows: a sequence of *)
(* records over cols].                                                      *)

\* pd.to_numeric(errors="coerce"): what is not a number becomes NaN
ToNumeric(c) == IF IsNum(c) THEN c ELSE Null

\* pd.to_datetime(errors="coerce").dt.date: what is not a date becomes NaT;
\* a number is read as an offset from the epoch
ToDate(c) ==
    IF c.k = "date" THEN c ELSE IF IsNum(c) THEN Date(19700101) ELSE Null

\* df2[required].itertuples(index=False, name=None)
Tuples(rows, required) ==
    [i \in DOMAIN rows |-> [j \in DOMAIN required |-> rows[i][required[j]]]]

\* [c for c in required if c not in df.columns]
MissingColumns(df, required) == {c \in Range(required) : c \notin df.cols}

\* Clamp to Postgres INT range (db.py 177-179)
ClampNoUpper(c) ==
    IF IsNum(c) /\ WideLt(c, Int32(PG_INT_MIN)) THEN Int32(PG_INT_MIN) ELSE c
Clamp(c) ==
    IF IsNum(c) /\ WideGt(c, Int32(PG_INT_MAX)) THEN Int32(PG_INT_MAX)
    ELSE IF IsNum(c) /\ WideLt(c, Int32(PG_INT_MIN)) THEN Int32(PG_INT_MIN)
    ELSE c

\* The conversions of insert_employees_df (db.py 169-185)
NormalizeEmployee(r) ==
    [c \in DOMAIN r |->
        IF c \in {"employee_id", "salary", "department_id"} THEN Clamp(ToNumeric(r[c]))
        ELSE IF c = "start_date" THEN ToDate(r[c])
        ELSE r[c]]

-----------------------------------------------------------------------------
(* The operations of DatabaseClient.  Each yields the connection state it   *)
(* leaves (K), the schema (sch), its outcome ("ok" or the error raised),    *)
(* the parameter tuples it built (sent), the number of statements it sent   *)
(* to storage (stmts), what it printed (report) and the trace of its calls  *)
(* on the connection and cursor.                                            *)

Ev(name, i) == [ev |-> name, i |-> i]
NoReport == [idx |-> -1, values |-> <<>>]

Result(K, sch, outcome, sent, stmts, report, trace) ==
    [K |-> K, sch |-> sch, outcome |-> outcome, sent |-> sent, stmts |-> stmts,
     report |-> report, trace |-> trace]

\* raise ValueError(f"Missing required columns ...")
MissingErrorRollingBack(sch, K) ==
    Result(Rollback(K), sch, "ValueError", <<>>, 0, NoReport, <<Ev("raise", -1)>>)
MissingError(sch, K) ==
    Result(K, sch, "ValueError", <<>>, 0, NoReport, <<Ev("raise", -1)>>)

\* executemany succeeded: self.conn.commit()
Committed(sch, rows, b) ==
    Result(Commit(b.K), sch, "ok", rows, b.sent, NoReport,
           <<Ev("executemany", -1), Ev("commit", -1)>>)

\* for i, r in enumerate(rows): the retry visits the rows in batch order
RetryOrderReversed(n) == [j \in 1..n |-> n + 1 - j]
RetryOrder(n) == [j \in 1..n |-> j]

\* print("Bad row at index:", i): enumerate counts from 0
ReportIndexOneBased(at) == at
ReportIndex(at) == at - 1

\* Between two rows of the retry the code does nothing with the transaction.
AfterRetryRowCommit(K) == Commit(K)
AfterRetryRow(K) == K

\* except Exception: self.conn.rollback() ... raise, for the failing retry row
OnRetryFailureNoRollback(K) == K
OnRetryFailure(K) == Rollback(K)

\* The row-by-row retry of insert_employees_df (db.py 203-210): at is the
\* 1-based batch position of the first row that fails (0: none), tried the
\* positions attempted, in order, rolled whether the failing row was rolled back.
RECURSIVE RetryFrom(_, _, _, _, _, _, _, _)
RetryStep(sch, sql, rows, order, j, sent, tried, r) ==
    IF r.err # ""
    THEN [err |-> r.err, at |-> order[j], K |-> OnRetryFailure(r.K),
          sent |-> sent + r.sent, tried |-> tried]
    ELSE RetryFrom(sch, AfterRetryRow(r.K), sql, rows, order, j + 1,
                   sent + r.sent, tried)

RetryFrom(sch, K, sql, rows, order, j, sent, tried) ==
    IF j > Len(order)
    THEN [err |-> "", at |-> 0, K |-> K, sent |-> sent, tried |-> tried]
    ELSE RetryStep(sch, sql, rows, order, j, sent, Append(tried, order[j]),
                   Execute(sch, K, sql, rows[order[j]]))

TriedTrace(tried) == [j \in DOMAIN tried |-> Ev("execute", tried[j] - 1)]

\* The trace of a failed batch attempt followed by the retry.
RetryTrace(b, r) ==
    <<Ev("executemany", b.at - 1), Ev("rollback", -1)>> \o TriedTrace(r.tried)

\* How insert_employees_df ends once the batch attempt b failed and the retry
\* r ran: the failing row is printed and its error raised, or, when no row
\* fails in the retry, the error of the batch attempt is raised (raise e).
EmployeesAfterRetry(sch, rows, b, r) ==
    IF r.err # ""
    THEN Result(Settle(r.K), sch, r.err, rows, b.sent + r.sent,
                [idx |-> ReportIndex(r.at), values |-> rows[r.at]],
                RetryTrace(b, r)
                    \o (IF r.K.tx = "idle" THEN <<Ev("rollback", -1)>> ELSE <<>>)
                    \o <<Ev("print", ReportIndex(r.at)), Ev("raise", -1)>>)
    ELSE Result(r.K, sch, b.err, rows, b.sent + r.sent, NoReport,
                RetryTrace(b, r) \o <<Ev("raise", -1)>>)

\* How insert_employees_df goes on after the batch attempt b (db.py 196-213).
EmployeesAfterBatch(sch, rows, b) ==
    IF b.err = "" THEN Committed(sch, rows, b)
    ELSE EmployeesAfterRetry(sch, rows, b,
            RetryFrom(sch, Rollback(b.K), EmployeesSql, rows, RetryOrder(Len(rows)),
                      1, 0, <<>>))

EmployeeTuples(df) ==
    Tuples([i \in DOMAIN df.rows |-> NormalizeEmployee(df.rows[i])], EmployeesSql.cols)

\* DatabaseClient.insert_employees_df
InsertEmployeesDf(sch, K, df) ==
    IF MissingColumns(df, EmployeesSql.cols) # {} THEN MissingError(sch, K)
    ELSE EmployeesAfterBatch(sch, EmployeeTuples(df),
                             ExecuteMany(sch, K, EmployeesSql, EmployeeTuples(df)))

\* How seed_departments goes on after executemany: no rollback on failure.
SeedAfterBatch(sch, rows, b) ==
    IF b.err = "" THEN Committed(sch, rows, b)
    ELSE Result(Settle(b.K), sch, b.err, rows, b.sent, NoReport,
                <<Ev("executemany", b.at - 1), Ev("raise", -1)>>)

\* DatabaseClient.seed_departments: no column check, no conversion
SeedDepartments(sch, K, departments) ==
    SeedAfterBatch(sch, departments, ExecuteMany(sch, K, DepartmentsSql, departments))

\* The conversions of insert_projects_df (db.py 242-246): no clamp
NormalizeProjectClamping(r) ==
    [c \in DOMAIN r |->
        IF c = "budget" THEN Clamp(ToNumeric(r[c]))
        ELSE IF c \in {"start_date", "end_date"} THEN ToDate(r[c])
        ELSE r[c]]
NormalizeProject(r) ==
    [c \in DOMAIN r |->
        IF c = "budget" THEN ToNumeric(r[c])
        ELSE IF c \in {"start_date", "end_date"} THEN ToDate(r[c])
        ELSE r[c]]

\* The conversions of insert_employee_projects_df (db.py 287-290): no clamp
NormalizeAssignment(r) ==
    [c \in DOMAIN r |->
        IF c \in {"employee_id", "project_id"} THEN ToNumeric(r[c]) ELSE r[c]]

\* How insert_projects_df and insert_employee_projects_df go on after
\* executemany: rollback and re-raise on failure, commit otherwise.
InsertAfterBatchNoRollback(sch, rows, b) ==
    IF b.err = "" THEN Committed(sch, rows, b)
    ELSE Result(Settle(b.K), sch, b.err, rows, b.sent, NoReport,
                <<Ev("executemany", b.at - 1), Ev("raise", -1)>>)
InsertAfterBatchReporting(sch, rows, b) ==
    IF b.err = "" THEN Committed(sch, rows, b)
    ELSE Result(Rollback(b.K), sch, b.err, rows, b.sent,
                [idx |-> ReportIndex(b.at), values |-> rows[b.at]],
                <<Ev("executemany", b.at - 1), Ev("rollback", -1),
                  Ev("print", ReportIndex(b.at)), Ev("raise", -1)>>)
InsertAfterBatch(sch, rows, b) ==
    IF b.err = "" THEN Committed(sch, rows, b)
    ELSE Result(Rollback(b.K), sch, b.err, rows, b.sent, NoReport,
                <<Ev("executemany", b.at - 1), Ev("rollback", -1), Ev("raise", -1)>>)

ProjectTuples(df) ==
    Tuples([i \in DOMAIN df.rows |-> NormalizeProject(df.rows[i])], ProjectsSql.cols)

\* DatabaseClient.insert_projects_df
InsertProjectsDf(sch, K, df) ==
    IF MissingColumns(df, ProjectsSql.cols) # {} THEN MissingError(sch, K)
    ELSE InsertAfterBatch(sch, ProjectTuples(df),
                          ExecuteMany(sch, K, ProjectsSql, ProjectTuples(df)))

AssignmentTuples(df) ==
    Tuples([i \in DOMAIN df.rows |-> NormalizeAssignment(df.rows[i])],
           EmployeeProjectsSql.cols)

\* DatabaseClient.insert_employee_projects_df
InsertEmployeeProjectsDf(sch, K, df) ==
    IF MissingColumns(df, EmployeeProjectsSql.cols) # {} THEN MissingError(sch, K)
    ELSE InsertAfterBatch(sch, AssignmentTuples(df),
                          ExecuteMany(sch, K, EmployeeProjectsSql, AssignmentTuples(df)))

-----------------------------------------------------------------------------
(* create_tables: one script of DDL statements in one cur.execute, then a   *)
(* commit.  A DDL state D is [err, sch, t]: t are the rows of the tables.   *)

\* CREATE TABLE IF NOT EXISTS t (...)
CreateTablePlain(D, t) ==
    IF D.err # "" THEN D
    ELSE IF t \in D.sch.tables THEN [D EXCEPT !.err = "duplicate_table"]
    ELSE [D EXCEPT !.sch.tables = @ \cup {t}]
CreateTableReplacing(D, t) ==
    IF D.err # "" THEN D
    ELSE [D EXCEPT !.sch.tables = @ \cup {t}, !.t[t] = {}]
CreateTableIfNotExists(D, t) ==
    IF D.err # "" THEN D
    ELSE [D EXCEPT !.sch.tables = @ \cup {t}]

\* DO $$ ... IF NOT EXISTS (constraint) THEN ALTER TABLE t ADD CONSTRAINT ... UNIQUE
AddUniqueIfMissing(D, t) ==
    IF D.err # "" \/ t \in D.sch.uniq THEN D
    ELSE IF \E r1, r2 \in D.t[t] : r1 # r2 /\ SameOn(r1, r2, DDL(t).uniq)
         THEN [D EXCEPT !.err = "unique_violation"]
    ELSE [D EXCEPT !.sch.uniq = @ \cup {t}]

\* ALTER TABLE employees ADD COLUMN IF NOT EXISTS is_dirty BOOLEAN DEFAULT FALSE
AddIsDirtyIfMissing(D) ==
    IF D.err # "" \/ D.sch.isDirty THEN D
    ELSE [D EXCEPT !.sch.isDirty = TRUE,
                   !.t["employees"] =
                       {[c \in DOMAIN r \cup {"is_dirty"} |->
                            IF c = "is_dirty" THEN Bool(FALSE) ELSE r[c]] : r \in @}]

\* The script of create_tables (db.py 55-119), statement by statement
SchemaScript(D) ==
    CreateTableIfNotExists(
        AddUniqueIfMissing(
            CreateTableIfNotExists(
                AddIsDirtyIfMissing(
                    CreateTableIfNotExists(
                        AddUniqueIfMissing(
                            CreateTableIfNotExists(D, "departments"),
                            "departments"),
                        "employees")),
                "projects"),
            "projects"),
        "employee_projects")

\* How create_tables goes on after cur.execute(sql): commit, or the error of
\* the script with no rollback.
CreateAfterScript(sch, K, D) ==
    IF D.err = ""
    THEN Result(Commit([K EXCEPT !.view = D.t, !.tx = "intrans"]), D.sch, "ok", <<>>, 1,
                NoReport, <<Ev("execute", -1), Ev("commit", -1)>>)
    ELSE Result(Settle([K EXCEPT !.tx = "aborted"]), sch, D.err, <<>>, 1, NoReport,
                <<Ev("execute", -1), Ev("raise", -1)>>)

\* DatabaseClient.create_tables
CreateTables(sch, K) ==
    IF K.tx = "aborted"
    THEN Result(K, sch, "in_failed_tx", <<>>, 1, NoReport,
                <<Ev("execute", -1), Ev("raise", -1)>>)
    ELSE CreateAfterScript(sch, K, SchemaScript([err |-> "", sch |-> sch, t |-> K.view]))

-----------------------------------------------------------------------------
(* The scoped connection.                                                  *)

\* __exit__: if self._conn: self._conn.close()
ExitConnLeaking(c, e) == IF c = "open" /\ e = "none" THEN "closed" ELSE c
ExitConn(c, e) == IF c = "open" THEN "closed" ELSE c

\* __exit__ returns None: the exception of the body is not suppressed
ExitSuppresses(e) == FALSE

-----------------------------------------------------------------------------
(* Inputs.                                                                 *)

EmployeeColumns == Range(EmployeesSql.cols)

EmpRow(id, sal, dept) ==
    [employee_id |-> id, name |-> Text("Ada"), position |-> Text("Data Analyst"),
     start_date |-> Date(20200115), salary |-> sal, department_id |-> dept,
     is_dirty |-> Bool(FALSE)]

\* employee 1; employee 1 again with another salary and department 1; an
\* unparseable id; an id above, and a salary below, the INTEGER range
EmpRows ==
    {EmpRow(Int32(1), Int32(70000), Null),
     EmpRow(Int32(1), Int32(PG_INT_MAX), Int32(1)),
     EmpRow(Text("abc"), Int32(PG_INT_MIN), Wide(1, 0)),
     EmpRow(Wide(1, 0), Wide(-2, PG_INT_MAX), Null)}

SeqsUpTo(S, n) == UNION {[1..m -> S] : m \in 0..n}

Restrict(r, colset) == [c \in colset |-> r[c]]
Extend(r, col, v) == [c \in DOMAIN r \cup {col} |-> IF c = col THEN v ELSE r[c]]

\* DataFrames over rowset: with exactly the required columns (up to n rows),
\* with one required column missing, and with one column too many.
Frames(rowset, required, n) ==
    {[cols |-> required, rows |-> b] : b \in SeqsUpTo(rowset, n)}
    \cup {[cols |-> required \ {c}, rows |-> <<Restrict(r, required \ {c})>>] :
            c \in required, r \in rowset}
    \cup {[cols |-> required \cup {"notes"}, rows |-> <<Extend(r, "notes", Text("n/a"))>>] :
            r \in rowset}

EmployeeFrames == Frames(EmpRows, EmployeeColumns, MaxBatch)

\* (department_name, location, budget) tuples: a department, the same
\* department with other values, a department without budget
DeptTuples ==
    {<<Text("Security"), Text("Toronto"), Int32(1800000)>>,
     <<Text("Security"), Text("Waterloo"), Int32(2600000)>>,
     <<Text("IT Operations"), Text("Cambridge"), Null>>}

\* lists of tuples: well-shaped, one element short, one element too many
DeptLists ==
    SeqsUpTo(DeptTuples, MaxRows)
    \cup {<<SubSeq(t, 1, 2)>> : t \in DeptTuples}
    \cup {<<Append(t, Text("n/a"))>> : t \in DeptTuples}

ProjectColumns == Range(ProjectsSql.cols)

ProjRow(name, type, sd, ed, budget) ==
    [project_name |-> name, project_type |-> type, start_date |-> sd, end_date |-> ed,
     budget |-> budget]

\* a project, the same project with other values, a budget above the range
ProjRows ==
    {ProjRow(Text("Apollo"), Text("internal"), Date(20200101), Null, Int32(100000)),
     ProjRow(Text("Apollo"), Text("client"), Date(20210101), Date(20211231), Int32(200000)),
     ProjRow(Text("Zeus"), Text("internal"), Date(20220101), Null, Wide(1, 0))}

ProjectFrames == Frames(ProjRows, ProjectColumns, MaxRows)

AssignmentColumns == Range(EmployeeProjectsSql.cols)

AsgRow(e, p, role) == [employee_id |-> e, project_id |-> p, role_on_project |-> role]

\* employee 1 on project 1, the same pair with another role, an unparseable
\* id, ids above and below the integer range
AsgRows ==
    {AsgRow(Int32(1), Int32(1), Text("lead")),
     AsgRow(Int32(1), Int32(1), Text("dev")),
     AsgRow(Text("abc"), Int32(1), Text("dev")),
     AsgRow(Wide(1, 0), Wide(-2, PG_INT_MAX), Text("dev"))}

AssignmentFrames == Frames(AsgRows, AssignmentColumns, MaxRows)

-----------------------------------------------------------------------------
(* The state machine of the database client.                               *)

NoTables == [t \in TableNames |-> {}]
FullSchema == [tables |-> TableNames, uniq |-> {"departments", "projects"}, isDirty |-> TRUE]

\* The schemas storage can hold before the first create_tables: any set of
\* tables closed under the foreign keys, with or without the constraints and
\* the column that create_tables adds after the fact.
PriorSchemas ==
    {sch \in [tables : SUBSET TableNames, uniq : SUBSET {"departments", "projects"},
              isDirty : BOOLEAN] :
        /\ sch.uniq \subseteq sch.tables
        /\ sch.isDirty => "employees" \in sch.tables
        /\ \A t \in sch.tables : \A fk \in DDL(t).fks : fk.table \in sch.tables}

NoCall == [op |-> "none", input |-> <<>>, sent |-> <<>>, outcome |-> "ok",
           stmts |-> 0, report |-> NoReport, trace |-> <<>>,
           before |-> [store |-> NoTables, view |-> NoTables, tx |-> "idle",
                       schema |-> FullSchema]]
NoExit == [pending |-> "none", propagated |-> "none", conn |-> "none"]
NoClean == [phase |-> "idle"]

Init ==
    /\ pc = "out" /\ conn = "none" /\ exc = "none" /\ tx = "idle"
    /\ schema \in PriorSchemas
    /\ store = NoTables /\ view = NoTables
    /\ seqs = [departments |-> 0, projects |-> 0]
    /\ last = NoCall /\ exitLog = NoExit /\ nCalls = 0
    /\ cl = NoClean

Conn == [view |-> view, store |-> store, sq |-> seqs, tx |-> tx]

\* __enter__ with get_conn returning a connection
Enter ==
    /\ pc \in {"out", "exited"}
    /\ pc' = "body" /\ conn' = "open" /\ exc' = "none"
    /\ tx' = "idle" /\ view' = store
    /\ exitLog' = NoExit
    /\ UNCHANGED <<schema, store, seqs, last, nCalls, cl>>

\* __enter__ with get_conn raising (missing environment, unreachable server):
\* the body does not run and __exit__ is not called
EnterFails ==
    /\ pc \in {"out", "exited"}
    /\ pc' = "out" /\ conn' = "none" /\ exc' = "none"
    /\ exitLog' = NoExit
    /\ UNCHANGED <<tx, schema, store, view, seqs, last, nCalls, cl>>

\* The body of the with statement ends, normally or by the exception in
\* flight: __exit__ runs, and closing discards the open transaction.
Exit ==
    /\ pc \in {"body", "returned"}
    /\ pc' = "exited"
    /\ conn' = ExitConn(conn, exc)
    /\ exitLog' = [pending |-> exc,
                   propagated |-> IF ExitSuppresses(exc) THEN "none" ELSE exc,
                   conn |-> ExitConn(conn, exc)]
    /\ exc' = "none"
    /\ tx' = "idle" /\ view' = store
    /\ last' = NoCall
    /\ UNCHANGED <<schema, store, seqs, nCalls, cl>>

\* An operation returned normally and the body goes on.
Proceed ==
    /\ pc = "returned" /\ exc = "none"
    /\ pc' = "body" /\ last' = NoCall
    /\ UNCHANGED <<conn, exc, tx, schema, store, view, seqs, exitLog, nCalls, cl>>

\* The caller catches the exception inside the body and goes on with the
\* same connection.
Catch ==
    /\ pc = "returned" /\ exc # "none"
    /\ pc' = "body" /\ exc' = "none" /\ last' = NoCall
    /\ UNCHANGED <<conn, tx, schema, store, view, seqs, exitLog, nCalls, cl>>

\* One operation of the client, invoked inside the body with input in.
Call(op, in, R) ==
    /\ pc' = "returned"
    /\ store' = R.K.store /\ view' = R.K.view /\ seqs' = R.K.sq /\ tx' = R.K.tx
    /\ schema' = R.sch
    /\ exc' = IF R.outcome = "ok" THEN "none" ELSE R.outcome
    /\ nCalls' = nCalls + 1
    /\ last' = [op |-> op, input |-> in, sent |-> R.sent,
                outcome |-> R.outcome, stmts |-> R.stmts, report |-> R.report,
                trace |-> R.trace,
                before |-> [store |-> store, view |-> view, tx |-> tx, schema |-> schema]]
    /\ UNCHANGED <<conn, exitLog, cl>>

CanCall == pc = "body" /\ conn = "open" /\ exc = "none" /\ nCalls < MaxCalls

DoCreateTables ==
    /\ CanCall
    /\ Call("create_tables", <<>>, CreateTables(schema, Conn))

DoSeedDepartments ==
    /\ CanCall
    /\ \E d \in DeptLists : Call("seed_departments", d, SeedDepartments(schema, Conn, d))

DoInsertEmployees ==
    /\ CanCall
    /\ \E df \in EmployeeFrames :
        Call("insert_employees_df", df, InsertEmployeesDf(schema, Conn, df))

DoInsertProjects ==
    /\ CanCall
    /\ \E df \in ProjectFrames :
        Call("insert_projects_df", df, InsertProjectsDf(schema, Conn, df))

DoInsertEmployeeProjects ==
    /\ CanCall
    /\ \E df \in AssignmentFrames :
        Call("insert_employee_projects_df", df, InsertEmployeeProjectsDf(schema, Conn, df))

Next ==
    \/ Enter
    \/ EnterFails
    \/ Exit
    \/ Proceed
    \/ Catch
    \/ DoCreateTables
    \/ DoSeedDepartments
    \/ DoInsertEmployees
    \/ DoInsertProjects
    \/ DoInsertEmployeeProjects

Spec == Init /\ [][Next]_vars

-----------------------------------------------------------------------------
(* EmployeeCleaner.clean.  A text value is NA or a string, written as the   *)
(* sequence of its characters; a salary or date cell is NA, an unparseable  *)
(* string, or a number (a date is the number yyyymmdd).                     *)

NA == [na |-> TRUE, s |-> <<>>]
Str(chars) == [na |-> FALSE, s |-> chars]

RawNA == [k |-> "na", n |-> 0]
RawText == [k |-> "text", n |-> 0]
RawNum(n) == [k |-> "num", n |-> n]

SALARY_MIN == 60000
SALARY_MAX == 200000
DATE_MIN == 20150101
DATE_MAX == 20241231
DATE_DEFAULT == 20190101

Unknown == <<"U", "n", "k", "n", "o", "w", "n">>

LowerCase == <<"a", "b", "c", "d", "e", "f", "g", "h", "i", "j", "k", "l", "m",
               "n", "o", "p", "q", "r", "s", "t", "u", "v", "w", "x", "y", "z">>
UpperCase == <<"A", "B", "C", "D", "E", "F", "G", "H", "I", "J", "K", "L", "M",
               "N", "O", "P", "Q", "R", "S", "T", "U", "V", "W", "X", "Y", "Z">>
Whitespace == {" ", "\t", "\n"}

IsLetter(ch) == ch \in Range(LowerCase) \cup Range(UpperCase)
IndexIn(alphabet, ch) == CHOOSE i \in DOMAIN alphabet : alphabet[i] = ch
Upper(ch) == IF ch \in Range(LowerCase) THEN UpperCase[IndexIn(LowerCase, ch)] ELSE ch
Lower(ch) == IF ch \in Range(UpperCase) THEN LowerCase[IndexIn(UpperCase, ch)] ELSE ch

\* str.strip(): without the leading and trailing whitespace
Strip(chars) ==
    IF \A j \in DOMAIN chars : chars[j] \in Whitespace THEN <<>>
    ELSE SubSeq(chars,
                CHOOSE a \in DOMAIN chars :
                    chars[a] \notin Whitespace /\ \A j \in 1..(a - 1) : chars[j] \in Whitespace,
                CHOOSE b \in DOMAIN chars :
                    chars[b] \notin Whitespace
                    /\ \A j \in (b + 1)..Len(chars) : chars[j] \in Whitespace)

\* str.title(): a letter that starts a run of letters in upper case, the
\* other letters in lower case
Title(chars) ==
    [j \in DOMAIN chars |->
        IF ~IsLetter(chars[j]) THEN chars[j]
        ELSE IF j = 1 \/ ~IsLetter(chars[j - 1]) THEN Upper(chars[j])
        ELSE Lower(chars[j])]

\* Series.isna() on a text column and Series.fillna(value)
FillNaNever(c, chars) == c
FillNa(c, chars) == IF c.na THEN Str(chars) ELSE c

\* Series.str.strip().str.title(): NA stays NA
Normalized(c) == IF c.na THEN c ELSE Str(Title(Strip(c.s)))

\* pd.to_numeric / pd.to_datetime with errors="coerce": NaN / NaT unless a number
Coerce(c) == IF c.k = "num" THEN c ELSE RawNA

\* (out["salary"] < 60000) | (out["salary"] > 200000) on the coerced value
InvalidSalaryLowOnly(c) == c.k = "num" /\ c.n < SALARY_MIN
InvalidSalary(c) == c.k = "num" /\ (c.n < SALARY_MIN \/ c.n > SALARY_MAX)

\* (date < 2015-01-01) | (date > 2024-12-31) on the coerced value
InvalidDate(c) == c.k = "num" /\ (c.n < DATE_MIN \/ c.n > DATE_MAX)

\* The numbers of a column of cells, in row order (NA skipped).
RECURSIVE Numbers(_)
Numbers(cells) ==
    IF cells = <<>> THEN <<>>
    ELSE IF cells[1].k = "num" THEN <<cells[1].n>> \o Numbers(Tail(cells))
    ELSE Numbers(Tail(cells))

Count(vals, v) == Cardinality({j \in DOMAIN vals : vals[j] = v})

\* The k-th smallest of a non-empty sequence of numbers.
Kth(vals, k) ==
    CHOOSE v \in Range(vals) :
        /\ Cardinality({j \in DOMAIN vals : vals[j] < v}) < k
        /\ Cardinality({j \in DOMAIN vals : vals[j] <= v}) >= k

\* Twice Series.median() of a non-empty sequence: the middle value, or the
\* mean of the two middle values.
TwiceMedian(vals) ==
    IF Len(vals) % 2 = 1 THEN 2 * Kth(vals, (Len(vals) + 1) \div 2)
    ELSE Kth(vals, Len(vals) \div 2) + Kth(vals, Len(vals) \div 2 + 1)

\* Series.mode().iloc[0]: the most frequent value; mode() sorts its result,
\* so among equally frequent values it is the smallest.
ModeFirstSeen(vals) ==
    CHOOSE v \in Range(vals) :
        /\ \A u \in Range(vals) : Count(vals, u) <= Count(vals, v)
        /\ \A u \in Range(vals) :
              Count(vals, u) = Count(vals, v) =>
                  (CHOOSE j \in DOMAIN vals : vals[j] = v /\ \A h \in 1..(j - 1) : vals[h] # v)
                  <= (CHOOSE j \in DOMAIN vals : vals[j] = u /\ \A h \in 1..(j - 1) : vals[h] # u)
Mode(vals) ==
    CHOOSE v \in Range(vals) :
        /\ \A u \in Range(vals) : Count(vals, u) <= Count(vals, v)
        /\ \A u \in Range(vals) : Count(vals, u) = Count(vals, v) => v <= u

\* fillna(median).astype(int): the fill value truncated to an integer
FilledSalaryRoundingUp(c, twiceMedian) ==
    IF c.k = "num" THEN c.n ELSE (twiceMedian + 1) \div 2
FilledSalary(c, twiceMedian) == IF c.k = "num" THEN c.n ELSE twiceMedian \div 2

\* The salary column after the invalid values were set to NA.
KeptSalaries(rows) ==
    [i \in DOMAIN rows |->
        IF InvalidSalary(Coerce(rows[i].salary)) THEN RawNA ELSE Coerce(rows[i].salary)]

\* The date column after the invalid values were set to NaT.
KeptDatesOutOfRange(rows) == [i \in DOMAIN rows |-> Coerce(rows[i].start_date)]
KeptDates(rows) ==
    [i \in DOMAIN rows |->
        IF InvalidDate(Coerce(rows[i].start_date)) THEN RawNA ELSE Coerce(rows[i].start_date)]

\* if out["start_date"].dropna().empty: 2019-01-01 else mode().iloc[0]
FillDate(dates) == IF Numbers(dates) = <<>> THEN DATE_DEFAULT ELSE Mode(Numbers(dates))

\* One row of the result, given the fill values of the batch.
CleanRow(r, salary, date, twiceMedian, fillDate) ==
    [name |-> FillNa(r.name, Unknown),
     position |-> Normalized(FillNa(r.position, Unknown)),
     salary |-> FilledSalary(salary, twiceMedian),
     start_date |-> IF date.k = "num" THEN date.n ELSE fillDate,
     issue_missing_name |-> r.name.na,
     issue_missing_position |-> r.position.na,
     issue_missing_start_date |-> r.start_date.k = "na",
     issue_missing_salary |-> r.salary.k = "na",
     issue_invalid_salary |-> InvalidSalary(Coerce(r.salary)),
     issue_invalid_start_date |-> InvalidDate(Coerce(r.start_date)),
     has_any_issue |->
        \/ r.name.na \/ r.position.na \/ r.start_date.k = "na" \/ r.salary.k = "na"
        \/ InvalidSalary(Coerce(r.salary)) \/ InvalidDate(Coerce(r.start_date))]

CleanRows(rows, salaries, dates, twiceMedian, fillDate) ==
    [err |-> "",
     rows |-> [i \in DOMAIN rows |->
                  CleanRow(rows[i], salaries[i], dates[i], twiceMedian, fillDate)]]

\* The salary step: with no valid salary the median is NaN, nothing is filled
\* and astype(int) raises on the NaN that remains.
CleanWithDefault(rows, salaries, dates) ==
    CleanRows(rows, salaries, dates,
              IF Numbers(salaries) = <<>> THEN 2 * SALARY_MIN
              ELSE TwiceMedian(Numbers(salaries)),
              FillDate(dates))
CleanWith(rows, salaries, dates) ==
    IF rows # <<>> /\ Numbers(salaries) = <<>> THEN [err |-> "ValueError", rows |-> <<>>]
    ELSE CleanRows(rows, salaries, dates,
                   IF rows = <<>> THEN 0 ELSE TwiceMedian(Numbers(salaries)),
                   FillDate(dates))

CleanColumns == {"name", "position", "start_date", "salary"}

\* EmployeeCleaner.clean: a column that is not there raises KeyError
Clean(df) ==
    IF ~(CleanColumns \subseteq df.cols) THEN [err |-> "KeyError", rows |-> <<>>]
    ELSE CleanWith(df.rows, KeptSalaries(df.rows), KeptDates(df.rows))

-----------------------------------------------------------------------------
(* The cleaner applied to bounded batches.                                  *)

\* longest batch given to clean
MaxCleanRows == 3

RawRow(name, position, date, salary) ==
    [name |-> name, position |-> position, start_date |-> date, salary |-> salary]

GoodRow == RawRow(Str(<<"A", "d", "a">>), Str(<<"Q", "a", " ", "L", "e", "a", "d">>),
                  RawNum(20160101), RawNum(70000))

RawNames == {NA, Str(<<>>)}
RawPositions == {NA, Str(<<>>), Str(<<" ", "\t">>), Str(<<" ", "q", "a", " ", "l", "E", "A", "D", " ">>)}
RawSalaries == {RawNA, RawText, RawNum(59999), RawNum(60000), RawNum(80003),
                RawNum(200000), RawNum(200001)}
RawDates == {RawNA, RawText, RawNum(20141231), RawNum(20150101), RawNum(20200505),
             RawNum(20241231), RawNum(20250101)}

\* Raw rows: the reference row, the rows that differ from it in one field, and
\* the row with every field missing.
RawRows ==
    {GoodRow, RawRow(NA, NA, RawNA, RawNA)}
    \cup {[GoodRow EXCEPT !.name = v] : v \in RawNames}
    \cup {[GoodRow EXCEPT !.position = v] : v \in RawPositions}
    \cup {[GoodRow EXCEPT !.salary = v] : v \in RawSalaries}
    \cup {[GoodRow EXCEPT !.start_date = v] : v \in RawDates}

CleanFrames ==
    {[cols |-> CleanColumns, rows |-> b] : b \in SeqsUpTo(RawRows, MaxCleanRows)}
    \cup {[cols |-> CleanColumns \ {c}, rows |-> <<Restrict(GoodRow, CleanColumns \ {c})>>] :
            c \in CleanColumns}

InitClean ==
    /\ pc = "out" /\ conn = "none" /\ exc = "none" /\ tx = "idle"
    /\ schema = FullSchema
    /\ store = NoTables /\ view = NoTables
    /\ seqs = [departments |-> 0, projects |-> 0]
    /\ last = NoCall /\ exitLog = NoExit /\ nCalls = 0
    /\ cl \in {[phase |-> "input", df |-> df, out |-> [err |-> "", rows |-> <<>>],
                 again |-> [err |-> "", rows |-> <<>>]] :
                df \in CleanFrames}

\* cleaner.clean(df) returns or raises
DoClean ==
    /\ cl.phase = "input"
    /\ cl' = [cl EXCEPT !.phase = "done", !.out = Clean(cl.df)]
    /\ UNCHANGED dbvars

\* The DataFrame clean returned, as the input of another clean: the four
\* columns hold strings, Timestamps and ints, next to the issue columns.
IssueColumns ==
    {"issue_missing_name", "issue_missing_position", "issue_missing_start_date",
     "issue_missing_salary", "issue_invalid_salary", "issue_invalid_start_date",
     "has_any_issue"}

AsFrame(out) ==
    [cols |-> CleanColumns \cup IssueColumns,
     rows |-> [i \in DOMAIN out.rows |->
                  RawRow(out.rows[i].name, out.rows[i].position,
                         RawNum(out.rows[i].start_date), RawNum(out.rows[i].salary))]]

\* cleaner.clean(cleaner.clean(df)): the result is cleaned once more
DoCleanAgain ==
    /\ cl.phase = "done" /\ cl.out.err = ""
    /\ cl' = [cl EXCEPT !.phase = "again", !.again = Clean(AsFrame(cl.out))]
    /\ UNCHANGED dbvars

NextClean ==
    \/ DoClean
    \/ DoCleanAgain

SpecClean == InitClean /\ [][NextClean]_vars

-----------------------------------------------------------------------------
(* Properties of the database client.                                      *)

Returned(op) == pc = "returned" /\ last.op = op

\* The error storage raises for one employee tuple executed on its own against
\* the rows committed before the call ("" when it is accepted).
EmpErrorAlone(tup) ==
    Execute(schema,
            [view |-> last.before.store, store |-> last.before.store, sq |-> seqs,
             tx |-> "idle"],
            EmployeesSql, tup).err

\* The 1-based position of the first tuple of the batch that storage rejects
\* when the batch is executed in order on the rows committed before the call.
FirstRejected ==
    ExecuteMany(schema,
                [view |-> last.before.store, store |-> last.before.store, sq |-> seqs,
                 tx |-> "idle"],
                EmployeesSql, last.sent).at

\* Row k of the batch is the row storage rejected (the retry reported it) and
\* every other row is well-formed.
OnlyRejected(k) ==
    /\ last.report.idx = k - 1
    /\ \A i \in DOMAIN last.sent : i # k => EmpErrorAlone(last.sent[i]) = ""

EmpStored(tup) == \E r \in store.employees : r.employee_id = tup[1]

\* The positions the retry attempted, in order, read off the trace.
Attempted == [j \in 1..(Len(SelectSeq(last.trace, LAMBDA e : e.ev = "execute"))) |->
                SelectSeq(last.trace, LAMBDA e : e.ev = "execute")[j].i]

\* C1 (as claimed): when exactly one row of an employee batch is rejected by
\* storage and every other row is well-formed, every other row of the batch is
\* committed in the employees table once insert_employees_df has ended.
C1_FailureIsolation ==
    Returned("insert_employees_df") =>
        \A k \in DOMAIN last.sent :
            OnlyRejected(k) =>
                \A i \in DOMAIN last.sent : i # k => EmpStored(last.sent[i])

\* C1 (amended): when exactly one row (index k) of an employee batch is
\* rejected by storage and every other row is well-formed,
\* insert_employees_df raises and commits nothing: the retry attempts rows
\* 0..k only, the rows before k are rolled back together with row k, and the
\* committed tables are what they were before the call.
C1_NothingCommitted ==
    Returned("insert_employees_df") =>
        \A k \in DOMAIN last.sent :
            OnlyRejected(k) =>
                /\ last.outcome # "ok"
                /\ store = last.before.store
                /\ view = store /\ tx = "idle"
                /\ Attempted = [j \in 1..k |-> j - 1]

\* a batch of three rows whose middle row is the only one storage rejects
C1_Witness ==
    /\ Returned("insert_employees_df")
    /\ Len(last.sent) = 3
    /\ OnlyRejected(2)
    /\ last.sent[1][1] # last.sent[3][1]

\* C2: when the batch attempt fails, the retry attempts the rows in batch
\* order starting at index 0; it stops at the first row storage rejects, which
\* is the row with the smallest index that fails, prints that index and the
\* row's full tuple, and rolls back before the exception leaves; no later row
\* is attempted.
C2_RetryInOrder ==
    (Returned("insert_employees_df") /\ Len(last.trace) >= 2
        /\ last.trace[1].ev = "executemany" /\ last.trace[1].i >= 0) =>
        /\ last.trace[2] = Ev("rollback", -1)
        /\ \A j \in DOMAIN Attempted : Attempted[j] = j - 1
        /\ IF FirstRejected = 0
           THEN /\ Len(Attempted) = Len(last.sent)
                /\ last.report = NoReport
                /\ last.trace[Len(last.trace)] = Ev("raise", -1)
           ELSE /\ Len(Attempted) = FirstRejected
                /\ last.report = [idx |-> FirstRejected - 1,
                                  values |-> last.sent[FirstRejected]]
                /\ SubSeq(last.trace, Len(last.trace) - 2, Len(last.trace))
                     = <<Ev("rollback", -1), Ev("print", FirstRejected - 1), Ev("raise", -1)>>
                /\ tx = "idle" /\ view = store

\* the retry ran and reported the third row of a batch
C2_Witness ==
    /\ Returned("insert_employees_df")
    /\ last.report.idx = 2
    /\ Attempted = <<0, 1, 2>>

KeyUnique(rows, key) == \A r1, r2 \in rows : SameOn(r1, r2, key) => r1 = r2

LastWithKey(sent, key) ==
    sent[CHOOSE i \in DOMAIN sent :
            /\ sent[i][1] = key
            /\ \A j \in DOMAIN sent : sent[j][1] = key => j <= i]

\* The stored rows of an update-on-duplicate table after one call: a successful
\* submission leaves, for each key it names, one row holding the values of the
\* last tuple with that key, and every other row as it was; any other call
\* leaves the table as it was.
LastWriterWins(op, sql, table, key) ==
    /\ KeyUnique(store[table], {key})
    /\ pc = "returned" =>
        IF last.op = op /\ last.outcome = "ok"
        THEN /\ \A i \in DOMAIN last.sent :
                    \E r \in store[table] :
                        /\ r[key] = last.sent[i][1]
                        /\ \A j \in 2..Len(sql.cols) :
                              r[sql.cols[j]] = LastWithKey(last.sent, last.sent[i][1])[j]
             /\ \A r \in last.before.store[table] :
                    (\A i \in DOMAIN last.sent : last.sent[i][1] # r[key])
                        => r \in store[table]
        ELSE store[table] = last.before.store[table]

\* C4: after any sequence of calls, the stored row of a department_name
\* (project_name) holds the non-key values of the most recent successfully
\* submitted row with that key, and there is one row per key.
C4_LastWriterWins ==
    /\ LastWriterWins("seed_departments", DepartmentsSql, "departments", "department_name")
    /\ LastWriterWins("insert_projects_df", ProjectsSql, "projects", "project_name")

\* one successful batch names the same department twice with different values
C4_Witness ==
    /\ Returned("seed_departments") /\ last.outcome = "ok"
    /\ Len(last.sent) = 2
    /\ last.sent[1][1] = last.sent[2][1]
    /\ last.sent[1][3] # last.sent[2][3]

Loaders == {"insert_employees_df", "seed_departments", "insert_projects_df",
            "insert_employee_projects_df"}

RequiredOf(op) ==
    CASE op = "insert_employees_df" -> EmployeesSql.cols
      [] op = "seed_departments" -> DepartmentsSql.cols
      [] op = "insert_projects_df" -> ProjectsSql.cols
      [] OTHER -> EmployeeProjectsSql.cols

\* The shape of the input of the last call against the required columns.
LacksColumn ==
    IF last.op = "seed_departments"
    THEN \E i \in DOMAIN last.input : Len(last.input[i]) < Len(DepartmentsSql.cols)
    ELSE ~(Range(RequiredOf(last.op)) \subseteq last.input.cols)

HasExtraColumn ==
    IF last.op = "seed_departments"
    THEN \E i \in DOMAIN last.input : Len(last.input[i]) > Len(DepartmentsSql.cols)
    ELSE /\ Range(RequiredOf(last.op)) \subseteq last.input.cols
         /\ last.input.cols # Range(RequiredOf(last.op))

\* The call failed before anything was sent to storage and left storage and
\* the transaction as they were, with no second attempt.
FailedBeforeStorage ==
    /\ last.outcome # "ok"
    /\ last.stmts = 0
    /\ store = last.before.store /\ view = last.before.view /\ tx = last.before.tx
    /\ \A j \in DOMAIN last.trace : last.trace[j].ev \notin {"execute", "rollback", "commit"}

\* The extra columns of the input played no part: every tuple built holds the
\* required columns only, and no error is raised on their account.
ExtraIgnored ==
    /\ last.outcome \notin {"ValueError", "client_args"}
    /\ Len(last.sent) = Len(IF last.op = "seed_departments" THEN last.input
                            ELSE last.input.rows)
    /\ \A i \in DOMAIN last.sent : Len(last.sent[i]) = Len(RequiredOf(last.op))

Above(c) == IsNum(c) /\ c.hi > 0
Below(c) == IsNum(c) /\ c.hi < -1

\* C6: insert_employees_df sends an employee_id, salary or department_id
\* above 2147483647 as 2147483647, one below -2147483648 as -2147483648 and
\* one inside the range unchanged, and storage never answers "integer out of
\* range".
C6_Clamping ==
    (Returned("insert_employees_df") /\ last.outcome # "ValueError") =>
        /\ last.outcome # "out_of_range"
        /\ \A i \in DOMAIN last.sent :
            \A c \in {"employee_id", "salary", "department_id"} :
                LET raw == last.input.rows[i][c]
                    out == last.sent[i][ParamIndex(EmployeesSql, c)]
                IN  /\ Above(raw) => (out.k = "num" /\ out.hi = 0 /\ out.lo = 2147483647)
                    /\ Below(raw) => (out.k = "num" /\ out.hi = -1 /\ out.lo = 0)
                    /\ (IsNum(raw) /\ ~Above(raw) /\ ~Below(raw)) => out = raw

\* a row whose employee_id was 2^31 is committed with employee_id 2147483647
C6_Witness ==
    /\ Returned("insert_employees_df") /\ last.outcome = "ok"
    /\ \E i \in DOMAIN last.sent :
          /\ last.input.rows[i].employee_id = Wide(1, 0)
          /\ \E r \in store.employees :
                r.employee_id = Int32(PG_INT_MAX) /\ r.salary = Int32(PG_INT_MIN)

\* C7: while the body of the with statement runs the connection is open, and
\* once the body is left, on whatever path, the connection is closed and the
\* exception that was in flight, if any, has propagated.
C7_ScopedConnection ==
    /\ pc \in {"body", "returned"} => conn = "open"
    /\ pc = "exited" =>
        /\ conn = "closed"
        /\ exitLog.conn = "closed"
        /\ exitLog.propagated = exitLog.pending

\* the body was left by a storage error
C7_Witness ==
    /\ pc = "exited"
    /\ exitLog.pending \notin {"none", "ValueError", "client_args"}

BatchFailed ==
    /\ pc = "returned" /\ Len(last.trace) >= 2
    /\ last.trace[1].ev = "executemany" /\ last.trace[1].i >= 0

\* C16: when the multi-row attempt of insert_employees_df, insert_projects_df
\* or insert_employee_projects_df fails, the rollback is the first thing done
\* after it, before the retry or the re-raise; nothing of the attempt is
\* committed or left visible, and the retry is not rejected for the aborted
\* transaction of the attempt.
C16_BatchRolledBack ==
    (BatchFailed /\ last.op \in {"insert_employees_df", "insert_projects_df",
                                 "insert_employee_projects_df"}) =>
        /\ last.trace[2] = Ev("rollback", -1)
        /\ store = last.before.store
        /\ \A t \in TableNames \ {"employees"} : view[t] = store[t]
        /\ last.op # "insert_employees_df" =>
              /\ last.trace = <<last.trace[1], Ev("rollback", -1), Ev("raise", -1)>>
              /\ tx = "idle" /\ view = store
        /\ (last.op = "insert_employees_df" /\ last.report.idx >= 0) =>
              /\ last.outcome # "in_failed_tx"
              /\ tx = "idle" /\ view = store

\* a projects batch failed at its second row, after the first was executed
C16_Witness ==
    /\ BatchFailed /\ last.op = "insert_projects_df"
    /\ last.trace[1].i = 1
    /\ last.before.tx = "idle"

Unretried == {"seed_departments", "insert_projects_df", "insert_employee_projects_df"}

\* C17 (as claimed): for departments, projects and assignments a batch
\* attempt that storage rejects is followed by a retry row by row in batch order that commits the
\* rows before the failing one and reports the first failing row with its
\* index and values before the error is raised.
C17_RetryEveryEntity ==
    (BatchFailed /\ last.op \in Unretried /\ last.stmts >= 1) =>
        /\ Attempted # <<>>
        /\ \A j \in DOMAIN Attempted : Attempted[j] = j - 1
        /\ last.report.idx = Len(Attempted) - 1
        /\ last.report.values = last.sent[Len(Attempted)]
        /\ SubSeq(last.trace, Len(last.trace) - 1, Len(last.trace))
             = <<Ev("print", last.report.idx), Ev("raise", -1)>>

\* C17 (amended): for departments, projects and assignments a failed batch
\* attempt is not retried: no row is executed on its own, none is reported,
\* none of the batch is committed, and the error of the batch attempt is
\* raised; for projects and assignments after the rollback.
C17_NoRetryElsewhere ==
    (BatchFailed /\ last.op \in Unretried) =>
        /\ Attempted = <<>>
        /\ \A j \in DOMAIN last.trace : last.trace[j].ev \notin {"execute", "print", "commit"}
        /\ last.report = NoReport
        /\ last.outcome \notin {"ok", "ValueError"}
        /\ exc = last.outcome
        /\ last.trace[Len(last.trace)] = Ev("raise", -1)
        /\ store = last.before.store
        /\ last.op # "seed_departments" =>
              SubSeq(last.trace, Len(last.trace) - 1, Len(last.trace))
                = <<Ev("rollback", -1), Ev("raise", -1)>>

\* a departments batch failed at its second tuple, after a well-formed first
C17_Witness ==
    /\ BatchFailed /\ last.op = "seed_departments"
    /\ last.trace[1].i = 1
    /\ last.outcome = "not_null"

\* C18: when a statement of create_tables, seed_departments or one of the
\* three loaders fails, the operation rolls back before it returns control,
\* so no operation leaves the transaction aborted and no statement is
\* rejected for an aborted transaction.
C18_NoPoisonedConnection ==
    pc = "returned" =>
        /\ tx # "aborted"
        /\ last.outcome # "in_failed_tx"

IntColumnsOf(op) ==
    IF op = "insert_projects_df" THEN {"budget"} ELSE {"employee_id", "project_id"}
SqlOf(op) == IF op = "insert_projects_df" THEN ProjectsSql ELSE EmployeeProjectsSql

UnclampedCall ==
    /\ pc = "returned"
    /\ last.op \in {"insert_projects_df", "insert_employee_projects_df"}
    /\ last.outcome # "ValueError"

\* C19 (as claimed): a projects budget and an assignments employee_id or
\* project_id above 2147483647 or below -2147483648 is pinned to that bound
\* before it is sent to storage, as the employees integer columns are.
C19_ClampEveryLoader ==
    UnclampedCall =>
        \A i \in DOMAIN last.sent :
            \A c \in IntColumnsOf(last.op) :
                LET raw == last.input.rows[i][c]
                    out == last.sent[i][ParamIndex(SqlOf(last.op), c)]
                IN  /\ Above(raw) => (out.k = "num" /\ out.hi = 0 /\ out.lo = 2147483647)
                    /\ Below(raw) => (out.k = "num" /\ out.hi = -1 /\ out.lo = 0)

\* C19 (amended): only insert_employees_df clamps.  A projects budget and an
\* assignments employee_id or project_id outside the integer range is sent to
\* storage as it is; the call that sends it does not succeed and stores
\* nothing.
C19_ClampEmployeesOnly ==
    UnclampedCall =>
        /\ \A i \in DOMAIN last.sent :
              \A c \in IntColumnsOf(last.op) :
                  IsNum(last.input.rows[i][c]) =>
                      last.sent[i][ParamIndex(SqlOf(last.op), c)] = last.input.rows[i][c]
        /\ (\E i \in DOMAIN last.sent :
              \E c \in IntColumnsOf(last.op) :
                  Above(last.input.rows[i][c]) \/ Below(last.input.rows[i][c])) =>
              /\ last.outcome # "ok"
              /\ store = last.before.store

\* storage rejected an assignment whose ids lie above and below the range
C19_Witness ==
    /\ UnclampedCall /\ last.op = "insert_employee_projects_df"
    /\ last.outcome = "out_of_range"
    /\ \E i \in DOMAIN last.sent :
          /\ last.sent[i][1] = Wide(1, 0)
          /\ last.sent[i][2] = Wide(-2, PG_INT_MAX)

\* C21: when insert_employees_df raises after its batch attempt failed, the
\* connection holds no open transaction and no uncommitted row of the call,
\* so that no later commit can store rows of a call that reported failure;
\* and a call whose rows all succeed in the retry does not end by raising the
\* error of the batch attempt.
C21_NoUncommittedAfterRaise ==
    (BatchFailed /\ last.op = "insert_employees_df" /\ last.outcome # "ok") =>
        /\ tx # "intrans"
        /\ view = store
        /\ ~(last.report = NoReport /\ Len(Attempted) = Len(last.sent))

-----------------------------------------------------------------------------
(* Properties of EmployeeCleaner.clean.                                     *)

CleanReturned == cl.phase = "done" /\ cl.out.err = ""

\* C9: in every row of a batch that clean returns, salary lies in
\* [60000, 200000] and start_date in [2015-01-01, 2024-12-31].
C9_RangeInvariant ==
    CleanReturned =>
        \A i \in DOMAIN cl.out.rows :
            /\ cl.out.rows[i].salary >= 60000 /\ cl.out.rows[i].salary <= 200000
            /\ cl.out.rows[i].start_date >= 20150101
            /\ cl.out.rows[i].start_date <= 20241231

\* clean returned a batch that held a salary above the range, an unparseable
\* salary and a date before the range
C9_Witness ==
    /\ CleanReturned
    /\ \E i, j, k \in DOMAIN cl.df.rows :
          /\ cl.df.rows[i].salary = RawNum(200001)
          /\ cl.df.rows[j].salary = RawText
          /\ cl.df.rows[k].start_date = RawNum(20141231)

IsBlank(c) == ~c.na /\ \A j \in DOMAIN c.s : c.s[j] \in Whitespace

\* C10 (as claimed): after clean, name and position are never null and never
\* empty; a raw name that is null or empty and a raw position that is null,
\* empty or only whitespace are flagged and replaced by "Unknown".
C10_NeverEmpty ==
    CleanReturned =>
        \A i \in DOMAIN cl.out.rows :
            LET raw == cl.df.rows[i]
                out == cl.out.rows[i]
            IN  /\ ~out.name.na /\ out.name.s # <<>>
                /\ ~out.position.na /\ out.position.s # <<>>
                /\ (raw.name.na \/ raw.name.s = <<>>) =>
                        (out.issue_missing_name /\ out.name = Str(Unknown))
                /\ (raw.position.na \/ IsBlank(raw.position)) =>
                        (out.issue_missing_position /\ out.position = Str(Unknown))

\* C10 (amended): after clean, name and position are never null; a raw name
\* or position that is null is flagged and replaced by "Unknown"; a raw name
\* that is the empty string and a raw position that is empty or only
\* whitespace are not flagged and come out as the empty string.
C10_NeverNull ==
    CleanReturned =>
        \A i \in DOMAIN cl.out.rows :
            LET raw == cl.df.rows[i]
                out == cl.out.rows[i]
            IN  /\ ~out.name.na /\ ~out.position.na
                /\ out.issue_missing_name = raw.name.na
                /\ out.issue_missing_position = raw.position.na
                /\ raw.name.na => out.name = Str(Unknown)
                /\ raw.position.na => out.position = Str(Unknown)
                /\ (~raw.name.na /\ raw.name.s = <<>>) => out.name = Str(<<>>)
                /\ IsBlank(raw.position) => out.position = Str(<<>>)

\* clean returned a batch with a null name, an empty name and a
\* whitespace-only position
C10_Witness ==
    /\ CleanReturned
    /\ \E i, j, k \in DOMAIN cl.df.rows :
          /\ cl.df.rows[i].name.na
          /\ cl.df.rows[j].name = Str(<<>>)
          /\ cl.df.rows[k].position = Str(<<" ", "\t">>)

\* What the statements about imputation call a valid raw value: parseable
\* and in range.
ValidSalary(c) == c.k = "num" /\ c.n >= 60000 /\ c.n <= 200000
ValidDate(c) == c.k = "num" /\ c.n >= 20150101 /\ c.n <= 20241231
HasValidSalary(r) == ValidSalary(r.salary)
HasValidDate(r) == ValidDate(r.start_date)

\* The valid salaries and the valid dates of the raw batch, in batch order.
RawValidSalaries ==
    [j \in DOMAIN SelectSeq(cl.df.rows, HasValidSalary) |->
        SelectSeq(cl.df.rows, HasValidSalary)[j].salary.n]
RawValidDates ==
    [j \in DOMAIN SelectSeq(cl.df.rows, HasValidDate) |->
        SelectSeq(cl.df.rows, HasValidDate)[j].start_date.n]

AnyIssueFlag(out) ==
    \/ out.issue_missing_name \/ out.issue_missing_position
    \/ out.issue_missing_start_date \/ out.issue_missing_salary
    \/ out.issue_invalid_salary \/ out.issue_invalid_start_date

\* C11: issue_invalid_salary is true exactly when the coerced raw salary is
\* below 60000 or above 200000, issue_invalid_start_date exactly when the
\* coerced raw date is outside [2015-01-01, 2024-12-31], and every row whose
\* salary or start_date was replaced by clean carries an issue flag and
\* has_any_issue.
C11_FlagsBeforeImputation ==
    CleanReturned =>
        \A i \in DOMAIN cl.out.rows :
            LET raw == cl.df.rows[i]
                out == cl.out.rows[i]
            IN  /\ out.issue_invalid_salary =
                      (raw.salary.k = "num" /\ (raw.salary.n < 60000 \/ raw.salary.n > 200000))
                /\ out.issue_invalid_start_date =
                      (raw.start_date.k = "num"
                       /\ (raw.start_date.n < 20150101 \/ raw.start_date.n > 20241231))
                /\ (raw.salary # RawNum(out.salary) \/ raw.start_date # RawNum(out.start_date))
                      => (AnyIssueFlag(out) /\ out.has_any_issue)

RoundHalfUp(twice) == (twice + 1) \div 2
RoundHalfEven(twice) ==
    IF twice % 2 = 0 \/ (twice \div 2) % 2 = 0 THEN twice \div 2 ELSE twice \div 2 + 1

\* C12 (as claimed): every row whose salary is missing or out of range gets
\* the median of the valid salaries of the batch, rounded to the nearest
\* integer when it is fractional (a half rounded up, or to the even side).
C12_MedianRounded ==
    CleanReturned =>
        \A i \in DOMAIN cl.out.rows :
            ~ValidSalary(cl.df.rows[i].salary) =>
                cl.out.rows[i].salary \in {RoundHalfUp(TwiceMedian(RawValidSalaries)),
                                           RoundHalfEven(TwiceMedian(RawValidSalaries))}

\* C12 (amended): every row whose salary is missing, unparseable or out of
\* range gets the median of the valid salaries of the batch with its
\* fraction dropped: the largest integer not above the median.  A row with a
\* valid salary keeps it.
C12_MedianTruncated ==
    CleanReturned =>
        \A i \in DOMAIN cl.out.rows :
            IF ValidSalary(cl.df.rows[i].salary)
            THEN cl.out.rows[i].salary = cl.df.rows[i].salary.n
            ELSE /\ 2 * cl.out.rows[i].salary <= TwiceMedian(RawValidSalaries)
                 /\ TwiceMedian(RawValidSalaries) < 2 * cl.out.rows[i].salary + 2

\* clean filled a defective salary in a batch whose two valid salaries have
\* a fractional median
C12_Witness ==
    /\ CleanReturned
    /\ Len(RawValidSalaries) = 2
    /\ TwiceMedian(RawValidSalaries) % 2 = 1
    /\ \E i \in DOMAIN cl.df.rows : ~ValidSalary(cl.df.rows[i].salary)

Occurrences(vals, v) == Cardinality({j \in DOMAIN vals : vals[j] = v})
FirstAt(vals, v) == CHOOSE j \in DOMAIN vals : vals[j] = v /\ \A h \in 1..(j - 1) : vals[h] # v
MostFrequent(vals) ==
    {v \in Range(vals) : \A u \in Range(vals) : Occurrences(vals, u) <= Occurrences(vals, v)}

\* C13 (as claimed): every row whose start_date is missing or out of range
\* gets the most frequent valid date of the batch, among equally frequent
\* dates the one that occurs first in batch order, and 2019-01-01 when the
\* batch has no valid date.
C13_ModeFirstSeen ==
    CleanReturned =>
        \A i \in DOMAIN cl.out.rows :
            ~ValidDate(cl.df.rows[i].start_date) =>
                IF RawValidDates = <<>> THEN cl.out.rows[i].start_date = 20190101
                ELSE /\ cl.out.rows[i].start_date \in MostFrequent(RawValidDates)
                     /\ \A u \in MostFrequent(RawValidDates) :
                            FirstAt(RawValidDates, cl.out.rows[i].start_date)
                                <= FirstAt(RawValidDates, u)

\* C13 (amended): every row whose start_date is missing, unparseable or out
\* of range gets the most frequent valid date of the batch, among equally
\* frequent dates the earliest one, and 2019-01-01 when the batch has no
\* valid date.  A row with a valid date keeps it.
C13_ModeEarliest ==
    CleanReturned =>
        \A i \in DOMAIN cl.out.rows :
            IF ValidDate(cl.df.rows[i].start_date)
            THEN cl.out.rows[i].start_date = cl.df.rows[i].start_date.n
            ELSE IF RawValidDates = <<>> THEN cl.out.rows[i].start_date = 20190101
            ELSE /\ cl.out.rows[i].start_date \in MostFrequent(RawValidDates)
                 /\ \A u \in MostFrequent(RawValidDates) : cl.out.rows[i].start_date <= u

\* clean filled a defective date in a batch where two valid dates are equally
\* frequent and the later one comes first
C13_Witness ==
    /\ CleanReturned
    /\ Len(cl.df.rows) = 3
    /\ cl.df.rows[1].start_date = RawNum(20200505)
    /\ cl.df.rows[2].start_date = RawNum(20160101)
    /\ ~ValidDate(cl.df.rows[3].start_date)

CleanedTwice == cl.phase = "again"

\* C14: for every batch on which clean succeeds, cleaning the result again
\* succeeds with the same name, position, start_date and salary in every row,
\* and with every issue flag and has_any_issue false.
C14_CleanIdempotent ==
    CleanedTwice =>
        /\ cl.again.err = ""
        /\ Len(cl.again.rows) = Len(cl.out.rows)
        /\ \A i \in DOMAIN cl.out.rows :
              /\ cl.again.rows[i].name = cl.out.rows[i].name
              /\ cl.again.rows[i].position = cl.out.rows[i].position
              /\ cl.again.rows[i].start_date = cl.out.rows[i].start_date
              /\ cl.again.rows[i].salary = cl.out.rows[i].salary
              /\ ~AnyIssueFlag(cl.again.rows[i])
              /\ ~cl.again.rows[i].has_any_issue

\* a batch with an out-of-range date, a missing salary and a position to
\* normalize was cleaned twice
C14_Witness ==
    /\ CleanedTwice
    /\ \E i, j, k \in DOMAIN cl.df.rows :
          /\ cl.df.rows[i].start_date = RawNum(20250101)
          /\ cl.df.rows[j].salary = RawNA
          /\ cl.df.rows[k].position = Str(<<" ", "q", "a", " ", "l", "E", "A", "D", " ">>)

CleanRan == cl.phase = "done" /\ CleanColumns \subseteq cl.df.cols

\* C15: a batch with rows of which none has a valid salary makes clean raise
\* an error; a batch with at least one valid salary never raises, whatever
\* is unparseable or out of range in it; clean never returns a row without
\* a salary (the empty batch comes back empty).
C15_NoValidSalaryRaises ==
    CleanRan =>
        /\ (cl.df.rows # <<>> /\ RawValidSalaries = <<>>) => cl.out.err # ""
        /\ RawValidSalaries # <<>> =>
              (cl.out.err = "" /\ Len(cl.out.rows) = Len(cl.df.rows))
        /\ cl.df.rows = <<>> => (cl.out.err = "" /\ cl.out.rows = <<>>)

\* clean raised on a batch whose salaries are one unparseable and one out of
\* range
C15_Witness ==
    /\ CleanRan /\ cl.out.err # ""
    /\ \E i, j \in DOMAIN cl.df.rows :
          /\ cl.df.rows[i].salary = RawText
          /\ cl.df.rows[j].salary = RawNum(59999)

\* C20: a raw salary or start_date that is present but fails coercion is
\* flagged missing and not invalid; a parseable value out of range is flagged
\* invalid and not missing; in both cases the value is imputed.
C20_UnparseableIsMissing ==
    CleanReturned =>
        \A i \in DOMAIN cl.out.rows :
            LET raw == cl.df.rows[i]
                out == cl.out.rows[i]
            IN  /\ raw.salary.k = "text" =>
                      (out.issue_missing_salary /\ ~out.issue_invalid_salary)
                /\ raw.start_date.k = "text" =>
                      (out.issue_missing_start_date /\ ~out.issue_invalid_start_date)
                /\ (raw.salary.k = "num" /\ ~ValidSalary(raw.salary)) =>
                      (out.issue_invalid_salary /\ ~out.issue_missing_salary
                       /\ out.salary # raw.salary.n)
                /\ (raw.start_date.k = "num" /\ ~ValidDate(raw.start_date)) =>
                      (out.issue_invalid_start_date /\ ~out.issue_missing_start_date
                       /\ out.start_date # raw.start_date.n)

====
